---- MODULE Spec2Model ----
(***************************************************************************)
(* A model of the aranet advertisement decoder (src/src/reading.rs), its   *)
(* repeat-detection heuristic and the scan loop that drives both           *)
(* (src/src/bin/aranet.rs).                                                *)
(*                                                                         *)
(* Byte buffers are sequences of 0..255.  Instants are integers counted in *)
(* ticks, TicksPerSec of them to a second, so that Duration::as_secs (which *)
(* truncates) is a real conversion.  Rust's Option and Result values are   *)
(* records with a "tag" field.                                             *)
(***************************************************************************)
EXTENDS Integers, Sequences, FiniteSets

VARIABLES
    raw,            \* SpecDecode: the payload handed to Reading::try_from
    decoded,        \* SpecDecode: what Reading::try_from returned for raw
    prev,           \* SpecRepeat: self of is_repeat_reading
    cand,           \* SpecRepeat: newer of is_repeat_reading
    verdict,        \* SpecRepeat: what is_repeat_reading returned
    now,            \* the monotonic clock (Instant::now()), in ticks
    mode,           \* Spec: args.mode
    adv,            \* Spec: the event events.next() delivered, not yet handled
    last_reading,   \* Spec: HashMap<BDAddr, Reading>
    output,         \* Spec: the lines written to stdout, oldest first
    pc              \* Spec: "running", "done" (stream ended) or "panicked"

vars == <<raw, decoded, prev, cand, verdict, now, mode, adv, last_reading, output, pc>>

(***************************************************************************)
(* Bounds of the model.                                                    *)
(***************************************************************************)
TicksPerSec == 2     \* clock ticks to a second
MaxLen == 24         \* longest payload
MaxFill == 3         \* payload fill bytes 0..MaxFill
MaxAge == 1          \* SpecRepeat: ages 0..MaxAge
MaxInterval == 1     \* SpecRepeat: intervals 0..MaxInterval
MaxInstant == 4      \* SpecRepeat: capture instants 0..MaxInstant, in ticks
MaxDiff == 2         \* SpecRepeat: sensor fields in which the pair may differ
MaxNow == 4          \* Spec: the clock stops at MaxNow ticks
MaxOut == 3          \* Spec: no event is delivered once MaxOut lines are written

(***************************************************************************)
(* Option / Result values.                                                 *)
(***************************************************************************)
None == [tag |-> "None"]
Some(x) == [tag |-> "Some", v |-> x]
Ok(x) == [tag |-> "Ok", v |-> x]
Err(e) == [tag |-> "Err", e |-> e]
Panic == [tag |-> "Panic"]

(***************************************************************************)
(* Device::try_from(u8)                                                    *)
(***************************************************************************)
\* Mutant: the Aranet2's type byte is taken for the Aranet4's.
Device_try_from_without_aranet2(value) ==
    CASE value = 0 -> Ok("Aranet4")
      [] value = 1 -> Ok("Aranet4")
      [] value = 2 -> Ok("AranetRadiation")
      [] value = 3 -> Ok("AranetRadon")
      [] OTHER -> Err("Unknown device type")

Device_try_from(value) ==
    CASE value = 0 -> Ok("Aranet4")
      [] value = 1 -> Ok("Aranet2")
      [] value = 2 -> Ok("AranetRadiation")
      [] value = 3 -> Ok("AranetRadon")
      [] OTHER -> Err("Unknown device type")

(***************************************************************************)
(* The slice iterator: position i (0-based) of the buffer, None past its   *)
(* end; u16::from_le_bytes and u32::from_le_bytes over unwrapped bytes.    *)
(***************************************************************************)
HasByte(b, i) == i < Len(b)
Byte(b, i) == IF HasByte(b, i) THEN b[i + 1] ELSE 0
\* Mutant: the first byte is the high one.
from_be_bytes2(b, i) == 256 * Byte(b, i) + Byte(b, i + 1)

from_le_bytes2(b, i) == Byte(b, i) + 256 * Byte(b, i + 1)
\* A u32 is kept as its two 16-bit halves, [lo, hi] standing for lo + 65536 * hi:
\* the whole number does not fit TLC's integers.
from_le_bytes4(b, i) == [lo |-> from_le_bytes2(b, i), hi |-> from_le_bytes2(b, i + 2)]

(***************************************************************************)
(* Clocks.  Instant::now() is the variable now.  SystemTime::now() runs    *)
(* WallOffset ticks ahead of it: the system clock is taken to be set, that *)
(* is at least 2^16 seconds (the largest age) past the Unix epoch, which   *)
(* is tick 0 of the wall clock.  checked_sub gives None below tick 0.      *)
(***************************************************************************)
WallOffset == 65536 * TicksPerSec
SystemTime_now(t) == WallOffset + t
checked_sub(t, secs) == IF t - secs * TicksPerSec < 0 THEN None ELSE Some(t - secs * TicksPerSec)

(***************************************************************************)
(* Reading::try_from(&[u8]), field by field.                               *)
(***************************************************************************)
\* Mutant: one byte less is asked for.
MinLen_off_by_one == 21 - 1
MinLen == 21
Aranet4Len == 22

skip(device) ==
    CASE device = "Aranet4" -> 8
      [] device = "AranetRadon" -> 7
      [] device = "AranetRadiation" -> 5

co2_field(w) == IF w \div 32768 > 0 THEN Some(Err("Invalid")) ELSE Some(Ok(w))

\* Mutant: 0x1F00 itself is out of range.
radon_field_bound_excluded(w) ==
    IF w = 7937 THEN Some(Err("NoData"))
    ELSE IF w = 7938 THEN Some(Err("HighHumidity"))
    ELSE IF w >= 7936 THEN Some(Err("Invalid"))
    ELSE Some(Ok(w))

radon_field(w) ==
    IF w = 7937 THEN Some(Err("NoData"))
    ELSE IF w = 7938 THEN Some(Err("HighHumidity"))
    ELSE IF w > 7936 THEN Some(Err("Invalid"))
    ELSE Some(Ok(w))

\* Mutant: the top bit is tested, as for the other words.
raw_temperature_field_top_bit(w) == IF w \div 32768 > 0 THEN Some(Err("Invalid")) ELSE Some(Ok(w))

raw_temperature_field(w) == IF (w \div 16384) % 2 > 0 THEN Some(Err("Invalid")) ELSE Some(Ok(w))

raw_pressure_field(w) == IF w \div 32768 > 0 THEN Some(Err("Invalid")) ELSE Some(Ok(w))

raw_humidity_v1(b) ==
    IF b \div 128 > 0 THEN Some(Err("Invalid")) ELSE Some(Ok([enc |-> "V1", v |-> b]))

raw_humidity_v2(w) ==
    IF w \div 32768 > 0 THEN Some(Err("Invalid")) ELSE Some(Ok([enc |-> "V2", v |-> w]))

\* Where the iterator stands before each field: the type byte (absent from a
\* 22-byte buffer), the skipped header, then the fields in the order read.
\* Mutant: a type byte is stepped over whatever the length.
pos_start_after_type_byte(b) == 1

pos_start(b) == IF Len(b) = Aranet4Len THEN 0 ELSE 1
pos_co2(b, device) == pos_start(b) + skip(device)
pos_radon(b, device) == pos_co2(b, device) + (IF device = "Aranet4" THEN 2 ELSE 0)
pos_radiation(b, device) == pos_radon(b, device) + (IF device = "AranetRadon" THEN 2 ELSE 0)
pos_temperature(b, device) ==
    pos_radiation(b, device) + (IF device = "AranetRadiation" THEN 4 + 4 + 2 + 1 ELSE 0)
pos_pressure(b, device) ==
    pos_temperature(b, device) + (IF device \in {"Aranet4", "AranetRadon"} THEN 2 ELSE 0)
pos_humidity(b, device) ==
    pos_pressure(b, device) + (IF device \in {"Aranet4", "AranetRadon"} THEN 2 ELSE 0)
pos_battery(b, device) ==
    pos_humidity(b, device)
        + (CASE device = "Aranet4" -> 1
             [] device = "AranetRadon" -> 2 + 1
             [] device = "AranetRadiation" -> 0)
pos_status(b, device) == pos_battery(b, device) + 1
pos_interval(b, device) == pos_battery(b, device) + 2
pos_age(b, device) == pos_battery(b, device) + 4

\* The positions read as *bytes.next().unwrap(): a None there panics.  The
\* header bytes and the pad bytes are read with a bare bytes.next().
unwrapped(b, device) ==
    (IF device = "Aranet4"
        THEN pos_co2(b, device) .. pos_co2(b, device) + 1 ELSE {})
    \cup (IF device = "AranetRadon"
        THEN pos_radon(b, device) .. pos_radon(b, device) + 1 ELSE {})
    \cup (IF device = "AranetRadiation"
        THEN pos_radiation(b, device) .. pos_radiation(b, device) + 9 ELSE {})
    \cup (IF device \in {"Aranet4", "AranetRadon"}
        THEN pos_temperature(b, device) .. pos_pressure(b, device) + 1 ELSE {})
    \cup (IF device = "Aranet4" THEN {pos_humidity(b, device)} ELSE {})
    \cup (IF device = "AranetRadon"
        THEN pos_humidity(b, device) .. pos_humidity(b, device) + 1 ELSE {})
    \cup (pos_battery(b, device) .. pos_age(b, device) + 1)

\* Mutant: the type byte is consulted whatever the length.
dispatch_by_type_byte(b) == Device_try_from(Byte(b, 0))

\* let device = if raw.len() == 22 { Aranet4 } else { Device::try_from(first)? }
dispatch(b) == IF Len(b) = Aranet4Len THEN Ok("Aranet4") ELSE Device_try_from(Byte(b, 0))

\* Mutant: the temperature word is read for every device.
fields_temperature_for_all(b, device) ==
    [device |-> device,
     co2 |-> IF device = "Aranet4"
                THEN co2_field(from_le_bytes2(b, pos_co2(b, device))) ELSE None,
     radon |-> IF device = "AranetRadon"
                THEN radon_field(from_le_bytes2(b, pos_radon(b, device))) ELSE None,
     radiation |-> IF device = "AranetRadiation"
                THEN Some([raw_total |-> from_le_bytes4(b, pos_radiation(b, device)),
                           raw_duration |-> from_le_bytes4(b, pos_radiation(b, device) + 4),
                           raw_rate |-> from_le_bytes2(b, pos_radiation(b, device) + 8)])
                ELSE None,
     raw_temperature |->
                raw_temperature_field(from_le_bytes2(b, pos_temperature(b, device))),
     raw_pressure |-> IF device \in {"Aranet4", "AranetRadon"}
                THEN raw_pressure_field(from_le_bytes2(b, pos_pressure(b, device)))
                ELSE None,
     raw_humidity |-> CASE device = "Aranet4" ->
                        raw_humidity_v1(Byte(b, pos_humidity(b, device)))
                   [] device = "AranetRadon" ->
                        raw_humidity_v2(from_le_bytes2(b, pos_humidity(b, device)))
                   [] device = "AranetRadiation" -> None,
     battery |-> Byte(b, pos_battery(b, device)),
     interval |-> from_le_bytes2(b, pos_interval(b, device)),
     age |-> from_le_bytes2(b, pos_age(b, device))]

fields(b, device) ==
    [device |-> device,
     co2 |-> IF device = "Aranet4"
                THEN co2_field(from_le_bytes2(b, pos_co2(b, device))) ELSE None,
     radon |-> IF device = "AranetRadon"
                THEN radon_field(from_le_bytes2(b, pos_radon(b, device))) ELSE None,
     radiation |-> IF device = "AranetRadiation"
                THEN Some([raw_total |-> from_le_bytes4(b, pos_radiation(b, device)),
                           raw_duration |-> from_le_bytes4(b, pos_radiation(b, device) + 4),
                           raw_rate |-> from_le_bytes2(b, pos_radiation(b, device) + 8)])
                ELSE None,
     raw_temperature |-> IF device \in {"Aranet4", "AranetRadon"}
                THEN raw_temperature_field(from_le_bytes2(b, pos_temperature(b, device)))
                ELSE None,
     raw_pressure |-> IF device \in {"Aranet4", "AranetRadon"}
                THEN raw_pressure_field(from_le_bytes2(b, pos_pressure(b, device)))
                ELSE None,
     raw_humidity |-> CASE device = "Aranet4" ->
                        raw_humidity_v1(Byte(b, pos_humidity(b, device)))
                   [] device = "AranetRadon" ->
                        raw_humidity_v2(from_le_bytes2(b, pos_humidity(b, device)))
                   [] device = "AranetRadiation" -> None,
     battery |-> Byte(b, pos_battery(b, device)),
     interval |-> from_le_bytes2(b, pos_interval(b, device)),
     age |-> from_le_bytes2(b, pos_age(b, device))]

stamped(f, instant, time) ==
    [device |-> f.device, co2 |-> f.co2, radon |-> f.radon, radiation |-> f.radiation,
     raw_temperature |-> f.raw_temperature, raw_pressure |-> f.raw_pressure,
     raw_humidity |-> f.raw_humidity, battery |-> f.battery, interval |-> f.interval,
     age |-> f.age, instant |-> instant, time |-> time]

try_from(b, t) ==
    IF Len(b) < MinLen THEN Err("Raw reading data too short")
    ELSE IF dispatch(b).tag = "Err" THEN Err("Unknown device type")
    ELSE IF dispatch(b).v = "Aranet2" THEN Err("Aranet2 is not yet supported")
    ELSE LET device == dispatch(b).v
             f == fields(b, device)
             instant == checked_sub(t, f.age)
             time == checked_sub(SystemTime_now(t), f.age)
         IN  IF \E i \in unwrapped(b, device) : ~HasByte(b, i) THEN Panic
             ELSE IF instant = None THEN Err("Failed to get current instant")
             ELSE IF time = None THEN Err("Failed to get current time")
             ELSE Ok(stamped(f, instant.v, time.v))

(***************************************************************************)
(* Reading::is_repeat_reading(&self, newer).  Instant::duration_since      *)
(* saturates to zero when newer.instant is the earlier one; as_secs drops  *)
(* the fraction of a second.                                               *)
(***************************************************************************)
duration_since(later, earlier) == IF later >= earlier THEN later - earlier ELSE 0

\* Mutant: a started second counts as a whole one.
as_secs_rounding_up(d) == (d + TicksPerSec - 1) \div TicksPerSec

as_secs(d) == d \div TicksPerSec

\* Mutant: the battery level is left out of the comparison.
is_repeat_reading_without_battery(self, newer) ==
    IF \/ self.co2 # newer.co2
       \/ self.radon # newer.radon
       \/ self.radiation # newer.radiation
       \/ self.raw_temperature # newer.raw_temperature
       \/ self.raw_pressure # newer.raw_pressure
       \/ self.raw_humidity # newer.raw_humidity
    THEN FALSE
    ELSE IF newer.age < self.age THEN FALSE
    ELSE IF newer.interval # self.interval THEN TRUE
    ELSE IF as_secs(duration_since(newer.instant, self.instant)) > newer.interval THEN FALSE
    ELSE TRUE

\* Mutant: the interval is compared before the age.
is_repeat_reading_interval_first(self, newer) ==
    IF \/ self.co2 # newer.co2
       \/ self.radon # newer.radon
       \/ self.radiation # newer.radiation
       \/ self.raw_temperature # newer.raw_temperature
       \/ self.raw_pressure # newer.raw_pressure
       \/ self.raw_humidity # newer.raw_humidity
       \/ self.battery # newer.battery
    THEN FALSE
    ELSE IF newer.interval # self.interval THEN TRUE
    ELSE IF newer.age < self.age THEN FALSE
    ELSE IF as_secs(duration_since(newer.instant, self.instant)) > newer.interval THEN FALSE
    ELSE TRUE

\* Mutant: the elapsed time is compared before the interval.
is_repeat_reading_elapsed_first(self, newer) ==
    IF \/ self.co2 # newer.co2
       \/ self.radon # newer.radon
       \/ self.radiation # newer.radiation
       \/ self.raw_temperature # newer.raw_temperature
       \/ self.raw_pressure # newer.raw_pressure
       \/ self.raw_humidity # newer.raw_humidity
       \/ self.battery # newer.battery
    THEN FALSE
    ELSE IF newer.age < self.age THEN FALSE
    ELSE IF as_secs(duration_since(newer.instant, self.instant)) > newer.interval THEN FALSE
    ELSE TRUE

is_repeat_reading(self, newer) ==
    IF \/ self.co2 # newer.co2
       \/ self.radon # newer.radon
       \/ self.radiation # newer.radiation
       \/ self.raw_temperature # newer.raw_temperature
       \/ self.raw_pressure # newer.raw_pressure
       \/ self.raw_humidity # newer.raw_humidity
       \/ self.battery # newer.battery
    THEN FALSE
    ELSE IF newer.age < self.age THEN FALSE
    ELSE IF newer.interval # self.interval THEN TRUE
    ELSE IF as_secs(duration_since(newer.instant, self.instant)) > newer.interval THEN FALSE
    ELSE TRUE

(***************************************************************************)
(* SpecDecode: Reading::try_from applied to one payload.  A payload is a   *)
(* first byte, a fill (one byte value throughout, or byte i holding i + 1) *)
(* and one byte overridden.                                                *)
(***************************************************************************)
TypeBytes == {0, 1, 2, 3, 4, 33}
OverrideBytes == {31, 64, 128, 255}
Fills == -1 .. MaxFill
LateNow == 65536 * TicksPerSec

FillByte(f, i) == IF f < 0 THEN i + 1 ELSE f

Frame(len, t, f, opos, oval) ==
    [i \in 1 .. len |->
        IF i = 1 THEN t ELSE IF i = opos + 1 THEN oval ELSE FillByte(f, i - 1)]

Idle == [tag |-> "Idle"]
EmptyMap == [a \in {} |-> None]

InitDecode ==
    /\ \E len \in 0 .. MaxLen, t \in TypeBytes, f \in Fills,
          opos \in 0 .. MaxLen - 1, oval \in OverrideBytes :
            raw = Frame(len, t, f, opos, oval)
    /\ now \in {0, LateNow}
    /\ decoded = None
    /\ prev = Idle /\ cand = Idle /\ verdict = None
    /\ mode = "Influx" /\ adv = None /\ last_reading = EmptyMap /\ output = <<>> /\ pc = "idle"

Decode ==
    /\ decoded = None
    /\ decoded' = Some(try_from(raw, now))
    /\ UNCHANGED <<raw, prev, cand, verdict, now, mode, adv, last_reading, output, pc>>

NextDecode == Decode

SpecDecode == InitDecode /\ [][NextDecode]_vars

(***************************************************************************)
(* SpecRepeat: is_repeat_reading applied to one pair of readings.  The     *)
(* previous reading is one of three (an Aranet4's, a radon device's, a     *)
(* radiation device's); the candidate differs from it in at most MaxDiff   *)
(* sensor fields; ages, intervals and instants are free.                   *)
(***************************************************************************)
SensorFields ==
    {"co2", "radon", "radiation", "raw_temperature", "raw_pressure", "raw_humidity", "battery"}

Radiation(n) ==
    [raw_total |-> [lo |-> n, hi |-> 0], raw_duration |-> [lo |-> n, hi |-> 0], raw_rate |-> n]

BaseSensors(device) ==
    [device |-> device,
     co2 |-> IF device = "Aranet4" THEN Some(Ok(1)) ELSE None,
     radon |-> IF device = "AranetRadon" THEN Some(Ok(1)) ELSE None,
     radiation |-> IF device = "AranetRadiation" THEN Some(Radiation(1)) ELSE None,
     raw_temperature |-> IF device = "AranetRadiation" THEN None ELSE Some(Ok(1)),
     raw_pressure |-> IF device = "AranetRadiation" THEN None ELSE Some(Ok(1)),
     raw_humidity |-> CASE device = "Aranet4" -> Some(Ok([enc |-> "V1", v |-> 1]))
                   [] device = "AranetRadon" -> Some(Ok([enc |-> "V2", v |-> 1]))
                   [] device = "AranetRadiation" -> None,
     battery |-> 1]

\* Another value of a field: a different number where the field is present and
\* a number where it is absent (k = 1), or absent where it is present and Invalid
\* where it is absent (k = 2).
Altered(field, x, k) ==
    IF field = "battery" THEN x + k
    ELSE IF field = "radiation"
        THEN (IF x = None THEN Some(Radiation(k)) ELSE IF k = 1 THEN Some(Radiation(2)) ELSE None)
    ELSE IF k = 2 THEN (IF x = None THEN Some(Err("Invalid")) ELSE None)
    ELSE IF field = "raw_humidity"
        THEN (IF x = None THEN Some(Ok([enc |-> "V1", v |-> 1]))
              ELSE Some(Ok([enc |-> x.v.v.enc, v |-> 2])))
    ELSE (IF x = None THEN Some(Ok(1)) ELSE Some(Ok(2)))

WithSensors(s, D, k) ==
    [device |-> s.device,
     co2 |-> IF "co2" \in D THEN Altered("co2", s.co2, k) ELSE s.co2,
     radon |-> IF "radon" \in D THEN Altered("radon", s.radon, k) ELSE s.radon,
     radiation |-> IF "radiation" \in D
                    THEN Altered("radiation", s.radiation, k) ELSE s.radiation,
     raw_temperature |-> IF "raw_temperature" \in D
                    THEN Altered("raw_temperature", s.raw_temperature, k) ELSE s.raw_temperature,
     raw_pressure |-> IF "raw_pressure" \in D
                    THEN Altered("raw_pressure", s.raw_pressure, k) ELSE s.raw_pressure,
     raw_humidity |-> IF "raw_humidity" \in D
                    THEN Altered("raw_humidity", s.raw_humidity, k) ELSE s.raw_humidity,
     battery |-> IF "battery" \in D THEN Altered("battery", s.battery, k) ELSE s.battery]

Timed(s, interval, age, instant) ==
    [device |-> s.device, co2 |-> s.co2, radon |-> s.radon, radiation |-> s.radiation,
     raw_temperature |-> s.raw_temperature, raw_pressure |-> s.raw_pressure,
     raw_humidity |-> s.raw_humidity, battery |-> s.battery, interval |-> interval,
     age |-> age, instant |-> instant, time |-> SystemTime_now(instant)]

InitRepeat ==
    /\ \E device \in {"Aranet4", "AranetRadon", "AranetRadiation"},
          D \in {X \in SUBSET SensorFields : Cardinality(X) <= MaxDiff},
          k \in 1 .. 2,
          i1 \in 0 .. MaxInterval, i2 \in 0 .. MaxInterval,
          a1 \in 0 .. MaxAge, a2 \in 0 .. MaxAge,
          t1 \in 0 .. MaxInstant, t2 \in 0 .. MaxInstant :
            /\ prev = Timed(BaseSensors(device), i1, a1, t1)
            /\ cand = Timed(WithSensors(BaseSensors(device), D, k), i2, a2, t2)
    /\ verdict = None
    /\ raw = <<>> /\ decoded = None /\ now = 0
    /\ mode = "Influx" /\ adv = None /\ last_reading = EmptyMap /\ output = <<>> /\ pc = "idle"

Judge ==
    /\ verdict = None
    /\ verdict' = Some(is_repeat_reading(prev, cand))
    /\ UNCHANGED <<raw, decoded, prev, cand, now, mode, adv, last_reading, output, pc>>

NextRepeat == Judge

SpecRepeat == InitRepeat /\ [][NextRepeat]_vars

(***************************************************************************)
(* Spec: the scan loop.  events.next() delivers an event (Receive), the    *)
(* loop body handles it (Handle), the clock runs (Tick), the stream may    *)
(* end (StreamEnd).                                                        *)
(*                                                                         *)
(* An event carries what the loop reads of it: its kind, whether the       *)
(* peripheral and its properties could be fetched, the peripheral's        *)
(* address, whether it has a local name, and the payload manufacturer_data *)
(* holds under MANUFACTURER_ID (None when it holds none).                  *)
(***************************************************************************)
devices == [a \in {"a1", "a2"} |-> IF a = "a1" THEN "office" ELSE "cellar"]
Addresses == DOMAIN devices \cup {"a3"}

Aranet4Frame(co2, interval, age) ==
    [i \in 1 .. Aranet4Len |->
        CASE i = 9 -> co2 [] i = 18 -> interval [] i = 20 -> age [] OTHER -> 0]

WellFormed ==
    {Aranet4Frame(0, 0, 0), Aranet4Frame(1, 0, 0), Aranet4Frame(0, 1, 0), Aranet4Frame(0, 0, 1)}

Malformed ==
    {Frame(MinLen - 1, 0, 0, 0, 0),     \* too short
     Frame(MinLen, 0, 0, 0, 0),         \* 21 bytes announcing an Aranet4
     Frame(Aranet4Len + 2, 1, 0, 0, 0), \* an Aranet2
     Frame(Aranet4Len + 2, 4, 0, 0, 0)} \* no known device

Event(kind, peripheral, properties, address, named, payload) ==
    [kind |-> kind, peripheral |-> peripheral, properties |-> properties,
     address |-> address, local_name |-> named, payload |-> payload]

Events ==
    {Event("DeviceDiscovered", "Ok", "Some", "a1", FALSE, None),
     Event("ManufacturerDataAdvertisement", "Err", "Some", "a1", FALSE, None),
     Event("ManufacturerDataAdvertisement", "Ok", "None", "a1", FALSE, None),
     Event("ManufacturerDataAdvertisement", "Ok", "Err", "a1", FALSE, None)}
    \cup {Event("ManufacturerDataAdvertisement", "Ok", "Some", a, FALSE, p) :
            a \in DOMAIN devices, p \in {None} \cup {Some(b) : b \in WellFormed \cup Malformed}}
    \cup {Event("ManufacturerDataAdvertisement", "Ok", "Some", "a3", n, p) :
            n \in BOOLEAN, p \in {None, Some(Aranet4Frame(0, 0, 0))}}

\* Mutant: the reading is not stored.
insert_nothing(map, k, v) == map

\* Mutant: storing a reading drops what was stored for the other addresses.
insert_dropping_others(map, k, v) == [a \in {k} |-> v]

\* HashMap::insert
insert(map, k, v) == [a \in DOMAIN map \cup {k} |-> IF a = k THEN v ELSE map[a]]

\* Mutant: an address seen for the first time is taken for a repeat.
is_new_only_when_stored(map, address, reading) ==
    address \in DOMAIN map /\ ~is_repeat_reading(map[address], reading)

\* if let Some(last) = last_reading.get(&address) { if last.is_repeat_reading(&reading) { continue } }
is_new(map, address, reading) ==
    ~(address \in DOMAIN map /\ is_repeat_reading(map[address], reading))

\* One line of stdout.  Its text (name, device, the present and valid fields,
\* battery, time) is a function of the device's name and the reading; the
\* address is kept beside it to tell the lines of two devices apart.
ReadingLine(address, reading) ==
    [kind |-> "reading", address |-> address, name |-> devices[address], reading |-> reading]

FoundLine(e) ==
    [kind |-> "found", address |-> e.address,
     name |-> IF e.address \in DOMAIN devices THEN Some(devices[e.address])
              ELSE IF e.local_name THEN Some("local name") ELSE None]

Init ==
    /\ now = 0
    /\ mode \in {"Influx", "Find"}
    /\ adv = None
    /\ last_reading = EmptyMap
    /\ output = <<>>
    /\ pc = "running"
    /\ raw = <<>> /\ decoded = None /\ prev = Idle /\ cand = Idle /\ verdict = None

Tick ==
    /\ pc = "running"
    /\ now < MaxNow
    /\ now' = now + 1
    /\ UNCHANGED <<raw, decoded, prev, cand, verdict, mode, adv, last_reading, output, pc>>

\* while let Some(event) = events.next().await
Receive ==
    /\ pc = "running"
    /\ adv = None
    /\ Len(output) < MaxOut
    /\ \E e \in Events : adv' = Some(e)
    /\ UNCHANGED <<raw, decoded, prev, cand, verdict, now, mode, last_reading, output, pc>>

\* events.next() gives None: the loop ends and scan returns Ok(()).
StreamEnd ==
    /\ pc = "running"
    /\ adv = None
    /\ pc' = "done"
    /\ UNCHANGED <<raw, decoded, prev, cand, verdict, now, mode, adv, last_reading, output>>

\* The body of the loop, for the event adv.  reading.time is never before the
\* Unix epoch (try_from fails where it would be), so the unwrap of
\* duration_since(UNIX_EPOCH) holds.
Handle ==
    /\ pc = "running"
    /\ adv # None
    /\ adv' = None
    /\ LET e == adv.v
           skipped == UNCHANGED <<last_reading, output, pc>>
       IN  IF e.kind # "ManufacturerDataAdvertisement" THEN skipped
           ELSE IF e.peripheral # "Ok" THEN skipped
           ELSE IF e.properties # "Some" THEN skipped
           ELSE IF mode = "Find"
               THEN IF e.payload = None THEN skipped
                    ELSE /\ output' = Append(output, FoundLine(e))
                         /\ UNCHANGED <<last_reading, pc>>
           ELSE IF e.address \notin DOMAIN devices THEN skipped
           ELSE IF e.payload = None THEN skipped
           ELSE LET r == try_from(e.payload.v, now)
                IN  IF r.tag = "Panic"
                        THEN pc' = "panicked" /\ UNCHANGED <<last_reading, output>>
                    ELSE IF r.tag = "Err" THEN skipped
                    ELSE IF ~is_new(last_reading, e.address, r.v) THEN skipped
                    ELSE /\ output' = Append(output, ReadingLine(e.address, r.v))
                         /\ last_reading' = insert(last_reading, e.address, r.v)
                         /\ UNCHANGED pc
    /\ UNCHANGED <<raw, decoded, prev, cand, verdict, now, mode>>

Next == Tick \/ Receive \/ StreamEnd \/ Handle

Spec == Init /\ [][Next]_vars

(***************************************************************************)
(* Claims about Reading::try_from, checked under SpecDecode.               *)
(***************************************************************************)
Decoded == decoded # None
Result == decoded.v
IsErr(r, msg) == r.tag = "Err" /\ r.e = msg

\* C1: for every buffer of length >= 21, whatever its content, try_from
\* returns a measurement or an error value: it never panics on a read past
\* the end of the buffer.
C1_NeverPanicsOnLengthValid ==
    (Decoded /\ Len(raw) >= 21) => Result.tag \in {"Ok", "Err"}

\* C2: for every buffer of length 0..20, whatever its content, try_from
\* returns the too-short error: no measurement and no panic.
C2_ShortIsTooShort ==
    (Decoded /\ Len(raw) < 21) => IsErr(Result, "Raw reading data too short")

C2_Witness ==
    /\ Decoded /\ Len(raw) = 20 /\ raw[1] = 0 /\ raw[20] = 20
    /\ IsErr(Result, "Raw reading data too short")

\* C10: a buffer of length exactly 22 is decoded as an Aranet4's without its
\* first byte being consulted: no unknown-device or unsupported error, an
\* Aranet4 measurement when there is one, and the same result whatever the
\* first byte is.  For every other length >= 21 the device is the one the
\* first byte maps to: 0 Aranet4, 1 Aranet2 (refused as unsupported),
\* 2 AranetRadiation, 3 AranetRadon.
WithFirstByte(b, t) == [i \in 1 .. Len(b) |-> IF i = 1 THEN t ELSE b[i]]

C10_VariantDispatch ==
    Decoded =>
        /\ Len(raw) = 22 =>
            /\ ~IsErr(Result, "Unknown device type")
            /\ ~IsErr(Result, "Aranet2 is not yet supported")
            /\ Result.tag = "Ok" => Result.v.device = "Aranet4"
            /\ \A t \in 0 .. 255 : try_from(WithFirstByte(raw, t), now) = Result
        /\ (Len(raw) >= 21 /\ Len(raw) # 22) =>
            /\ Result.tag = "Ok" =>
                \/ raw[1] = 0 /\ Result.v.device = "Aranet4"
                \/ raw[1] = 2 /\ Result.v.device = "AranetRadiation"
                \/ raw[1] = 3 /\ Result.v.device = "AranetRadon"
            /\ raw[1] = 1 => IsErr(Result, "Aranet2 is not yet supported")
            /\ raw[1] \in {0, 2, 3} =>
                /\ ~IsErr(Result, "Unknown device type")
                /\ ~IsErr(Result, "Aranet2 is not yet supported")

\* A 22-byte buffer whose first byte names no device, decoded as an Aranet4's.
C10_Witness ==
    /\ Decoded /\ Len(raw) = 22 /\ raw[1] = 33
    /\ Result.tag = "Ok" /\ Result.v.device = "Aranet4"

(***************************************************************************)
(* Claims about is_repeat_reading, checked under SpecRepeat.               *)
(***************************************************************************)
Judged == verdict # None
SensorsDiffer == \E f \in SensorFields : prev[f] # cand[f]
ElapsedTicks == cand.instant - prev.instant

\* C3: when the two measurements differ in at least one sensor-bearing field
\* (co2, radon, radiation, temperature, pressure, humidity, battery) the
\* candidate is not a repeat, whatever the ages, intervals and instants are.
C3_NewSensorDataIsNotRepeat ==
    (Judged /\ SensorsDiffer) => verdict.v = FALSE

\* Only the battery differs, no time has passed, and age and interval agree.
C3_Witness ==
    /\ Judged /\ verdict.v = FALSE
    /\ \A f \in SensorFields \ {"battery"} : prev[f] = cand[f]
    /\ prev.battery # cand.battery
    /\ ElapsedTicks = 0 /\ cand.age = prev.age /\ cand.interval = prev.interval

\* C4: with identical sensor fields and candidate.age < previous.age the
\* candidate is not a repeat, whatever the elapsed time is and whether or not
\* the intervals are equal.
C4_AgeRolloverIsNotRepeat ==
    (Judged /\ ~SensorsDiffer /\ cand.age < prev.age) => verdict.v = FALSE

\* The age went down while the interval changed and no time has passed.
C4_Witness ==
    /\ Judged /\ verdict.v = FALSE /\ ~SensorsDiffer
    /\ cand.age < prev.age /\ cand.interval # prev.interval /\ ElapsedTicks = 0

C6_IntervalChangeIsRepeat ==
    (Judged /\ ~SensorsDiffer /\ cand.age >= prev.age /\ cand.interval # prev.interval)
        => verdict.v = TRUE

\* The interval changed and more than either interval has elapsed.
C6_Witness ==
    /\ Judged /\ verdict.v = TRUE /\ ~SensorsDiffer
    /\ cand.age >= prev.age /\ cand.interval # prev.interval
    /\ ElapsedTicks \div TicksPerSec > cand.interval
    /\ ElapsedTicks \div TicksPerSec > prev.interval

(***************************************************************************)
(* Claims about the scan loop, checked under Spec.                         *)
(***************************************************************************)
\* The loop body runs on an advertisement of a configured device whose
\* payload reaches Reading::try_from.
Decoding ==
    /\ pc = "running" /\ adv # None /\ adv' = None
    /\ mode = "Influx"
    /\ adv.v.kind = "ManufacturerDataAdvertisement"
    /\ adv.v.peripheral = "Ok" /\ adv.v.properties = "Some"
    /\ adv.v.address \in DOMAIN devices
    /\ adv.v.payload # None

Outcome == try_from(adv.v.payload.v, now)

\* The lines written for an address, oldest first.
LinesOf(a) == SelectSeq(output, LAMBDA l : l.kind = "reading" /\ l.address = a)

EmittedAndStored(a, r) ==
    /\ output' = Append(output, ReadingLine(a, r))
    /\ DOMAIN last_reading' = DOMAIN last_reading \cup {a}
    /\ last_reading'[a] = r
    /\ \A b \in DOMAIN last_reading \ {a} : last_reading'[b] = last_reading[b]

\* C7: handling one successfully decoded measurement for an address either
\* emits it and stores it for that address (when it is not a repeat of the
\* stored one) or emits nothing and stores nothing (when it is); the stored
\* measurements of the other addresses are unchanged either way, and the
\* measurement stored for an address is always the last one emitted for it.
C7_EmitAndStoreOrDrop ==
    /\ [](\A a \in Addresses :
            IF a \in DOMAIN last_reading
            THEN /\ LinesOf(a) # <<>>
                 /\ LinesOf(a)[Len(LinesOf(a))].reading = last_reading[a]
            ELSE LinesOf(a) = <<>>)
    /\ [][(Decoding /\ Outcome.tag = "Ok") =>
            LET a == adv.v.address
                r == Outcome.v
            IN  IF a \in DOMAIN last_reading /\ is_repeat_reading(last_reading[a], r)
                THEN output' = output /\ last_reading' = last_reading
                ELSE EmittedAndStored(a, r)]_vars

\* a1, a2 and a1 again were emitted: a1's second reading replaced its first
\* and a2's is still the stored one.
C7_Witness ==
    /\ mode = "Influx" /\ Len(output) = 3
    /\ output[1].address = "a1" /\ output[2].address = "a2" /\ output[3].address = "a1"
    /\ output[3].reading # output[1].reading
    /\ DOMAIN last_reading = {"a1", "a2"}
    /\ last_reading["a1"] = output[3].reading
    /\ last_reading["a2"] = output[2].reading

\* C8: when nothing is stored for an address, the next successfully decoded
\* measurement from it is emitted and stored, whatever its fields, age and
\* interval are.
C8_FirstReadingIsNew ==
    [][(Decoding /\ Outcome.tag = "Ok" /\ adv.v.address \notin DOMAIN last_reading) =>
            EmittedAndStored(adv.v.address, Outcome.v)]_vars

\* The first reading of a2, one with a non-zero age, was emitted and stored
\* after a1 had one.
C8_Witness ==
    /\ mode = "Influx" /\ Len(output) = 2 /\ output[1].address = "a1" /\ output[2].address = "a2"
    /\ output[2].reading.age > 0
    /\ DOMAIN last_reading = {"a1", "a2"} /\ last_reading["a2"] = output[2].reading

\* C9: when the payload of an advertisement does not decode, the loop skips
\* the advertisement: no line is written, the stored measurements are
\* unchanged and the loop keeps running, so that no malformed payload ever
\* terminates it.
C9_MalformedPayloadIsSkipped ==
    [][(Decoding /\ Outcome.tag # "Ok") =>
            /\ output' = output
            /\ last_reading' = last_reading
            /\ pc' = "running"]_vars


(***************************************************************************)
(* Further claims about Reading::try_from, checked under SpecDecode.       *)
(***************************************************************************)
\* C11: for every buffer of length >= 21 other than 22, a type byte that maps
\* to no device (4 or more) gives the unknown-device error and the Aranet2's
\* type byte (1) gives the unsupported error; neither gives a measurement, so
\* no decoded measurement is an Aranet2's.
C11_UnknownAndUnsupported ==
    Decoded =>
        /\ (Len(raw) >= 21 /\ Len(raw) # 22 /\ raw[1] >= 4) =>
                /\ IsErr(Result, "Unknown device type")
                /\ \A t \in 4 .. 255 :
                    IsErr(try_from(WithFirstByte(raw, t), now), "Unknown device type")
        /\ (Len(raw) >= 21 /\ Len(raw) # 22 /\ raw[1] = 1) =>
                IsErr(Result, "Aranet2 is not yet supported")
        /\ Result.tag = "Ok" => Result.v.device # "Aranet2"

\* A 24-byte buffer announcing an Aranet2, long enough for any layout, refused.
C11_Witness ==
    /\ Decoded /\ Len(raw) = 24 /\ raw[1] = 1 /\ now = LateNow
    /\ IsErr(Result, "Aranet2 is not yet supported")


\* The fields a buffer holds when each is read at a fixed offset from base:
\* the layout of each device, written out.
LE16(b, i) == b[i + 1] + 256 * b[i + 2]
LE32(b, i) == [lo |-> LE16(b, i), hi |-> LE16(b, i + 2)]

LayoutAt(b, device, base) ==
    CASE device = "Aranet4" ->
            [co2 |-> co2_field(LE16(b, base + 8)),
             radon |-> None,
             radiation |-> None,
             raw_temperature |-> raw_temperature_field(LE16(b, base + 10)),
             raw_pressure |-> raw_pressure_field(LE16(b, base + 12)),
             raw_humidity |-> raw_humidity_v1(b[base + 14 + 1]),
             battery |-> b[base + 15 + 1],
             interval |-> LE16(b, base + 17),
             age |-> LE16(b, base + 19)]
      [] device = "AranetRadon" ->
            [co2 |-> None,
             radon |-> radon_field(LE16(b, base + 7)),
             radiation |-> None,
             raw_temperature |-> raw_temperature_field(LE16(b, base + 9)),
             raw_pressure |-> raw_pressure_field(LE16(b, base + 11)),
             raw_humidity |-> raw_humidity_v2(LE16(b, base + 13)),
             battery |-> b[base + 16 + 1],
             interval |-> LE16(b, base + 18),
             age |-> LE16(b, base + 20)]
      [] device = "AranetRadiation" ->
            [co2 |-> None,
             radon |-> None,
             radiation |-> Some([raw_total |-> LE32(b, base + 5),
                                 raw_duration |-> LE32(b, base + 9),
                                 raw_rate |-> LE16(b, base + 13)]),
             raw_temperature |-> None,
             raw_pressure |-> None,
             raw_humidity |-> None,
             battery |-> b[base + 16 + 1],
             interval |-> LE16(b, base + 18),
             age |-> LE16(b, base + 20)]

FieldsOf(r) ==
    [co2 |-> r.co2, radon |-> r.radon, radiation |-> r.radiation,
     raw_temperature |-> r.raw_temperature, raw_pressure |-> r.raw_pressure,
     raw_humidity |-> r.raw_humidity, battery |-> r.battery,
     interval |-> r.interval, age |-> r.age]

\* The same Aranet4 frame with its device determined the other way: a type
\* byte 0 put before a 22-byte buffer, or the 22 bytes after the type byte.
OtherWay(b) == IF Len(b) = 22 THEN <<0>> \o b ELSE SubSeq(b, 2, 23)

\* C12, as claimed: each device has one layout in offsets of the buffer, the
\* same whether the device was determined by the length or by the type byte.
C12_AsClaimed ==
    (Decoded /\ Result.tag = "Ok") =>
        IF Result.v.device = "Aranet4"
        THEN \E base \in {0, 1} :
                \A b \in {raw, OtherWay(raw)} :
                    try_from(b, now).tag = "Ok" =>
                        FieldsOf(try_from(b, now).v) = LayoutAt(b, "Aranet4", base)
        ELSE FieldsOf(Result.v) = LayoutAt(raw, Result.v.device, 1)

\* C12, amended: each device has one layout in offsets counted from the end of
\* the type byte, that is from the start of a 22-byte buffer (which has none)
\* and from the second byte of any other.
C12_LayoutAfterTypeByte ==
    (Decoded /\ Result.tag = "Ok") =>
        FieldsOf(Result.v)
            = LayoutAt(raw, Result.v.device, IF Len(raw) = 22 THEN 0 ELSE 1)

\* An Aranet4 determined by its type byte, its bytes all different: the co2
\* is the word at bytes 9-10, not the one at bytes 8-9.
C12_Witness ==
    /\ Decoded /\ Result.tag = "Ok" /\ Len(raw) = 23 /\ raw[1] = 0
    /\ Result.v.device = "Aranet4"
    /\ Result.v.co2 = Some(Ok(LE16(raw, 9)))
    /\ LE16(raw, 9) # LE16(raw, 8)


\* The buffer with the bit of the given weight set in the byte at offset i.
WithBit(b, i, weight) ==
    [k \in 1 .. Len(b) |->
        IF k = i + 1 /\ (b[k] \div weight) % 2 = 0 THEN b[k] + weight ELSE b[k]]

\* The reserved bit of each field of a 22-byte frame: the byte and the weight.
ReservedBit ==
    [co2 |-> <<9, 128>>, raw_temperature |-> <<11, 64>>,
     raw_pressure |-> <<13, 128>>, raw_humidity |-> <<14, 128>>]

\* C13: in a 22-byte frame, setting the reserved bit of one field (bit 15 of
\* the co2 word, bit 14 of the temperature word, bit 15 of the pressure word,
\* bit 7 of the humidity byte) makes that field Invalid and leaves every other
\* field of the measurement as it is without the bit.
C13_SentinelPropagation ==
    (Decoded /\ Len(raw) = 22 /\ Result.tag = "Ok") =>
        \A f \in DOMAIN ReservedBit :
            LET marked == try_from(WithBit(raw, ReservedBit[f][1], ReservedBit[f][2]), now)
            IN  /\ marked.tag = "Ok"
                /\ marked.v[f] = Some(Err("Invalid"))
                /\ \A g \in DOMAIN Result.v \ {f} : marked.v[g] = Result.v[g]

\* A decoded 22-byte frame with bit 14 of its temperature set and nothing else
\* wrong: the temperature alone is Invalid.
C13_Witness ==
    /\ Decoded /\ Len(raw) = 22 /\ Result.tag = "Ok"
    /\ (raw[12] \div 64) % 2 = 1 /\ raw[12] < 128
    /\ Result.v.raw_temperature = Some(Err("Invalid"))
    /\ Result.v.co2.v.tag = "Ok"
    /\ Result.v.raw_pressure.v.tag = "Ok"
    /\ Result.v.raw_humidity.v.tag = "Ok"


\* What a raw radon value stands for: 0x1F01 no data, 0x1F02 humidity too
\* high, anything else above 0x1F00 invalid, the rest the value itself.
RadonMeaning(r) ==
    CASE r = 7937 -> Some(Err("NoData"))
      [] r = 7938 -> Some(Err("HighHumidity"))
      [] r > 7936 /\ r <= 65535 /\ r # 7937 /\ r # 7938 -> Some(Err("Invalid"))
      [] r <= 7936 -> Some(Ok(r))

WithByte(b, i, x) == [k \in 1 .. Len(b) |-> IF k = i + 1 THEN x ELSE b[k]]

\* C14: the radon of a radon device's frame is what its raw 16-bit value
\* stands for; checked for the frame decoded and for the same frame with every
\* high byte of the radon word.
C14_RadonSentinels ==
    (Decoded /\ Result.tag = "Ok" /\ Result.v.device = "AranetRadon") =>
        /\ Result.v.radon = RadonMeaning(LE16(raw, 8))
        /\ \A hi \in 0 .. 255 :
            try_from(WithByte(raw, 9, hi), now).v.radon = RadonMeaning(raw[9] + 256 * hi)

\* A radon frame whose raw radon is 0x1F01, decoded as no data.
C14_Witness ==
    /\ Decoded /\ Result.tag = "Ok" /\ Result.v.device = "AranetRadon"
    /\ LE16(raw, 8) = 7937
    /\ Result.v.radon = Some(Err("NoData"))


\* The measurement fields a device does not report.
Unreported(device) ==
    CASE device = "Aranet4" -> {"radon", "radiation"}
      [] device = "Aranet2" -> {"co2", "radon", "radiation"}
      [] device = "AranetRadon" -> {"co2", "radiation"}
      [] device = "AranetRadiation" ->
            {"co2", "radon", "raw_temperature", "raw_pressure", "raw_humidity"}

\* C15: in every reading decoded, a radiation device has no temperature,
\* pressure, humidity, co2 or radon, an Aranet2 has no co2, and a field the
\* device does not report is None, never Some of an error.
C15_VariantFieldSets ==
    (Decoded /\ Result.tag = "Ok") =>
        LET r == Result.v
        IN  /\ r.device = "AranetRadiation" =>
                /\ r.raw_temperature = None /\ r.raw_pressure = None
                /\ r.raw_humidity = None /\ r.co2 = None /\ r.radon = None
            /\ r.device = "Aranet2" => r.co2 = None
            /\ \A f \in Unreported(r.device) : r[f] = None

\* A radiation frame decoded: its radiation is there, its temperature is not.
C15_Witness ==
    /\ Decoded /\ Result.tag = "Ok" /\ Result.v.device = "AranetRadiation"
    /\ Result.v.radiation # None
    /\ Result.v.raw_temperature = None
    /\ raw[15] = 255


(***************************************************************************)
(* A further claim about the scan loop, checked under Spec.                *)
(***************************************************************************)
\* The addresses whose stored reading a step sets or replaces.
Written == {a \in DOMAIN last_reading' : a \notin DOMAIN last_reading \/ last_reading'[a] # last_reading[a]}

\* C16: last_reading is empty when the loop starts; an address that has an
\* entry keeps having one; an entry is written only for the address of the
\* advertisement handled, only when that address is a configured device and
\* its reading decoded, was not a repeat and was emitted; only configured
\* addresses ever have an entry.
C16_FreshnessLifecycle ==
    /\ last_reading = EmptyMap
    /\ [](DOMAIN last_reading \subseteq DOMAIN devices)
    /\ [][/\ DOMAIN last_reading \subseteq DOMAIN last_reading'
          /\ \A a \in Written :
                /\ Decoding /\ Outcome.tag = "Ok"
                /\ a = adv.v.address
                /\ a \in DOMAIN devices
                /\ is_new(last_reading, a, Outcome.v)
                /\ last_reading'[a] = Outcome.v
                /\ output' = Append(output, ReadingLine(a, Outcome.v))]_vars

\* a2's reading was stored, then a1's: a2 kept its entry, and a further
\* advertisement, from an address that is not configured, is at hand.
C16_Witness ==
    /\ mode = "Influx" /\ Len(output) = 2
    /\ output[1].address = "a2" /\ output[2].address = "a1"
    /\ DOMAIN last_reading = {"a1", "a2"}
    /\ last_reading["a2"] = output[1].reading
    /\ adv # None /\ adv.v.address = "a3" /\ adv.v.payload # None


(***************************************************************************)
(* The bytes behind each field, checked under SpecDecode.                  *)
(***************************************************************************)
\* Byte i of the frame at hand, counted from 0, and the little-endian words
\* that start there.
B(i) == raw[i + 1]
W16(i) == B(i) + 256 * B(i + 1)
W32(i) == [lo |-> B(i) + 256 * B(i + 1), hi |-> B(i + 2) + 256 * B(i + 3)]

\* C17: a decoded 22-byte frame has co2 at bytes 8-9, temperature at 10-11,
\* pressure at 12-13, humidity at 14, battery at 15, interval at 17-18 and age
\* at 19-20; a decoded radon frame (type byte 3) has radon, temperature,
\* pressure and humidity at 8-9, 10-11, 12-13 and 14-15, battery at 17,
\* interval at 19-20 and age at 21-22; a decoded radiation frame (type byte 2)
\* has total at 6-9, duration at 10-13, rate at 14-15, battery at 17, interval
\* at 19-20 and age at 21-22.  Words are little-endian; a measurement is the
\* word itself when the word carries no sentinel.
C17_FixedOffsetsLittleEndian ==
    (Decoded /\ Result.tag = "Ok") =>
        LET r == Result.v
        IN  /\ Len(raw) = 22 =>
                /\ W16(8) < 32768 => r.co2 = Some(Ok(W16(8)))
                /\ (W16(10) \div 16384) % 2 = 0 => r.raw_temperature = Some(Ok(W16(10)))
                /\ W16(12) < 32768 => r.raw_pressure = Some(Ok(W16(12)))
                /\ B(14) < 128 => r.raw_humidity = Some(Ok([enc |-> "V1", v |-> B(14)]))
                /\ r.battery = B(15)
                /\ r.interval = W16(17)
                /\ r.age = W16(19)
            /\ (Len(raw) # 22 /\ B(0) = 3) =>
                /\ W16(8) <= 7936 => r.radon = Some(Ok(W16(8)))
                /\ (W16(10) \div 16384) % 2 = 0 => r.raw_temperature = Some(Ok(W16(10)))
                /\ W16(12) < 32768 => r.raw_pressure = Some(Ok(W16(12)))
                /\ W16(14) < 32768 => r.raw_humidity = Some(Ok([enc |-> "V2", v |-> W16(14)]))
                /\ r.battery = B(17)
                /\ r.interval = W16(19)
                /\ r.age = W16(21)
            /\ (Len(raw) # 22 /\ B(0) = 2) =>
                /\ r.radiation = Some([raw_total |-> W32(6), raw_duration |-> W32(10),
                                       raw_rate |-> W16(14)])
                /\ r.battery = B(17)
                /\ r.interval = W16(19)
                /\ r.age = W16(21)

\* A 22-byte frame whose bytes all differ, decoded: its co2 is byte 8 plus 256
\* times byte 9 and its age byte 19 plus 256 times byte 20.
C17_Witness ==
    /\ Decoded /\ Result.tag = "Ok" /\ Len(raw) = 22
    /\ B(8) # B(9) /\ B(19) # B(20)
    /\ Result.v.co2 = Some(Ok(B(8) + 256 * B(9)))
    /\ Result.v.age = B(19) + 256 * B(20)

====
